---- MODULE Spec2Model ----
(***************************************************************************)
(* Model of dashboard_g.py: the numeric/period normaliser, the source      *)
(* loader (load_data), the ledger classifier, the monthly settlement       *)
(* aggregator and the candidate (entity index) builder.                    *)
(*                                                                         *)
(* Text is a sequence of one-character strings.  A Hangul syllable is one  *)
(* code point in the source; it is written here as one romanised token    *)
(* (for example "mae","ip" for the purchase marker), so that Python's      *)
(* substring test `kw in text` is the contiguous-subsequence test below.   *)
(*                                                                         *)
(* A spreadsheet cell is a record: [k |-> "null"] (NaN / None),            *)
(* [k |-> "int", v |-> n], [k |-> "str", v |-> text] or                    *)
(* [k |-> "date", y |-> .., m |-> .., d |-> ..] (an Excel date cell).      *)
(***************************************************************************)
EXTENDS Integers, Sequences, FiniteSets, TLC

VARIABLES
    fs,        \* loader: the files on disk (master workbook and legacy files)
    data,      \* loader: what load_data returned ("unset", None, or df_dict)
    row,       \* classifier: the ledger row handed to categorize_ledger_row
    category,  \* classifier: the categories returned by the calls made so far
    tables,    \* aggregator: df_emp, df_pur, df_inv, df_led
    ym,        \* aggregator: the requested period
    summary,   \* aggregator: rows returned by compute_auto_month_summary
    columns,   \* index builder: the source columns (sequence of cells)
    names,     \* index builder: the candidate list built from them
    numIn,     \* clean_numeric: input cell
    numOut,    \* clean_numeric: clean_numeric(numIn)
    numOut2,   \* clean_numeric: clean_numeric(clean_numeric(numIn))
    pc         \* position of the modelled call sequence

vars == <<fs, data, row, category, tables, ym, summary, columns, names,
          numIn, numOut, numOut2, pc>>

-----------------------------------------------------------------------------
(* Cells and text *)

Idle == <<>>

Null == [k |-> "null"]
IntCell(n) == [k |-> "int", v |-> n]
StrCell(t) == [k |-> "str", v |-> t]
DateCell(y, m, d) == [k |-> "date", y |-> y, m |-> m, d |-> d]

Digits == {"0", "1", "2", "3", "4", "5", "6", "7", "8", "9"}

DigitVal == [c \in Digits |->
               CASE c = "0" -> 0 [] c = "1" -> 1 [] c = "2" -> 2 [] c = "3" -> 3
                 [] c = "4" -> 4 [] c = "5" -> 5 [] c = "6" -> 6 [] c = "7" -> 7
                 [] c = "8" -> 8 [] c = "9" -> 9]

DigitChar == <<"0", "1", "2", "3", "4", "5", "6", "7", "8", "9">>

RECURSIVE DigitsToNat(_)
DigitsToNat(s) ==
    IF s = <<>> THEN 0
    ELSE 10 * DigitsToNat(SubSeq(s, 1, Len(s) - 1)) + DigitVal[s[Len(s)]]

RECURSIVE NatToDigits(_)
NatToDigits(n) ==
    IF n < 10 THEN <<DigitChar[n + 1]>>
    ELSE Append(NatToDigits(n \div 10), DigitChar[(n % 10) + 1])

\* Mutant of IntToStr: the sign is lost when an integer is printed.
IntToStrUnsigned(n) == IF n < 0 THEN NatToDigits(-n) ELSE NatToDigits(n)

\* str(n) for a Python / numpy integer
IntToStr(n) == IF n < 0 THEN <<"-">> \o NatToDigits(-n) ELSE NatToDigits(n)

Pad2(n) == IF n < 10 THEN <<"0">> \o NatToDigits(n) ELSE NatToDigits(n)

Pad4(n) ==
    IF n < 10 THEN <<"0", "0", "0">> \o NatToDigits(n)
    ELSE IF n < 100 THEN <<"0", "0">> \o NatToDigits(n)
    ELSE IF n < 1000 THEN <<"0">> \o NatToDigits(n)
    ELSE NatToDigits(n)

\* series.astype(str) on one cell
AsStr(c) ==
    CASE c.k = "null" -> <<"n", "a", "n">>
      [] c.k = "int"  -> IntToStr(c.v)
      [] c.k = "str"  -> c.v
      [] c.k = "date" -> Pad4(c.y) \o <<"-">> \o Pad2(c.m) \o <<"-">> \o Pad2(c.d)

-----------------------------------------------------------------------------
(* clean_numeric *)

NumericKeep == Digits \cup {".", "-"}

StripKeep(c) == c \in NumericKeep

\* .str.replace(r"[^0-9.-]", "", regex=True)
StripNonNumeric(t) == SelectSeq(t, StripKeep)

AllDigits(s) == \A i \in 1..Len(s) : s[i] \in Digits

DotPositions(s) == {i \in 1..Len(s) : s[i] = "."}

\* pd.to_numeric(errors="coerce") on text made of digits, '.' and '-' only,
\* followed by astype(int) (truncation toward zero): [ok, int].
\* Accepted: -?D+ , -?D+.D* , -?D*.D+ ; anything else is NaN.
ToNumeric(t) ==
    LET neg  == Len(t) > 0 /\ t[1] = "-"
        body == IF neg THEN SubSeq(t, 2, Len(t)) ELSE t
        dots == DotPositions(body)
        dot  == IF dots = {} THEN Len(body) + 1 ELSE CHOOSE i \in dots : TRUE
        ip   == SubSeq(body, 1, dot - 1)
        fp   == SubSeq(body, dot + 1, Len(body))
        ok   == /\ Cardinality(dots) <= 1
                /\ AllDigits(ip) /\ AllDigits(fp)
                /\ Len(ip) + Len(fp) > 0
        mag  == DigitsToNat(ip)
    IN  IF ok THEN [ok |-> TRUE, int |-> IF neg THEN -mag ELSE mag]
        ELSE [ok |-> FALSE, int |-> 0]

\* clean_numeric on one cell of the series: NaN is filled with 0
clean_numeric(c) ==
    LET n == ToNumeric(StripNonNumeric(AsStr(c)))
    IN  IF n.ok THEN n.int ELSE 0

-----------------------------------------------------------------------------
(* normalize_ym and the date conversions of load_data *)

NoDate == [ok |-> FALSE, y |-> 0, m |-> 0, d |-> 0]

IsLeap(y) == (y % 4 = 0 /\ y % 100 # 0) \/ y % 400 = 0

DaysInMonth(y, m) ==
    IF m = 2 THEN (IF IsLeap(y) THEN 29 ELSE 28)
    ELSE IF m \in {4, 6, 9, 11} THEN 30 ELSE 31

\* the ISO forms YYYY-MM-DD and YYYY-MM of a text, as pd.to_datetime reads
\* them; any other text of the model's inputs is not a date
ParseDateText(t) ==
    LET wellFormed ==
            /\ Len(t) \in {7, 10}
            /\ AllDigits(SubSeq(t, 1, 4)) /\ t[5] = "-" /\ AllDigits(SubSeq(t, 6, 7))
            /\ Len(t) = 10 => t[8] = "-" /\ AllDigits(SubSeq(t, 9, 10))
        y == DigitsToNat(SubSeq(t, 1, 4))
        m == DigitsToNat(SubSeq(t, 6, 7))
        d == IF Len(t) = 10 THEN DigitsToNat(SubSeq(t, 9, 10)) ELSE 1
    IN  IF wellFormed /\ m \in 1..12 /\ d \in 1..DaysInMonth(y, m)
        THEN [ok |-> TRUE, y |-> y, m |-> m, d |-> d]
        ELSE NoDate

\* pd.to_datetime(cell, errors="coerce"): a timestamp, or NaT
ToDatetime(c) ==
    CASE c.k = "date" -> [ok |-> TRUE, y |-> c.y, m |-> c.m, d |-> c.d]
      [] c.k = "str"  -> ParseDateText(c.v)
      [] OTHER        -> NoDate

\* .dt.strftime("%Y-%m") on one timestamp
StrfYm(t) == Pad4(t.y) \o <<"-">> \o Pad2(t.m)

\* Mutant of normalize_ym: a value that is not a date is left as NaN.
normalize_ym_drop_text(c) ==
    LET s == ToDatetime(c)
    IN  IF s.ok THEN StrCell(StrfYm(s)) ELSE Null

\* normalize_ym on one cell of the series
normalize_ym(c) ==
    LET s == ToDatetime(c)
    IN  IF s.ok THEN StrCell(StrfYm(s)) ELSE StrCell(AsStr(c))

\* pd.to_datetime(col, errors='coerce').dt.strftime('%Y-%m') on one cell:
\* NaT gives NaN
DerivePeriod(c) ==
    LET s == ToDatetime(c)
    IN  IF s.ok THEN StrCell(StrfYm(s)) ELSE Null

\* pd.to_datetime(col, errors="coerce").dt.date on one cell
ToDate(c) ==
    LET s == ToDatetime(c)
    IN  IF s.ok THEN DateCell(s.y, s.m, s.d) ELSE Null

-----------------------------------------------------------------------------
(* Data frames: [cols, rows]; a row is [id, c] with c a function on cols *)

EmptyDF == [cols |-> {}, rows |-> <<>>]

\* pd.DataFrame(columns=[...])
EmptyWithColumns(cols) == [cols |-> cols, rows |-> <<>>]

\* df[name] = vals (one value per row)
SetColumn(df, name, vals) ==
    [cols |-> df.cols \cup {name},
     rows |-> [i \in 1..Len(df.rows) |->
                 [id |-> df.rows[i].id,
                  c  |-> [x \in df.cols \cup {name} |->
                            IF x = name THEN vals[i] ELSE df.rows[i].c[x]]]]]

\* df.rename(columns={old: new})
RenameColumn(df, old, new) ==
    IF old \notin df.cols THEN df
    ELSE [cols |-> (df.cols \ {old}) \cup {new},
          rows |-> [i \in 1..Len(df.rows) |->
                      [id |-> df.rows[i].id,
                       c  |-> [x \in (df.cols \ {old}) \cup {new} |->
                                 IF x = new THEN df.rows[i].c[old]
                                 ELSE df.rows[i].c[x]]]]]

TableIds == {"emp", "pur", "led", "inv", "month"}

TableOrder == <<"emp", "pur", "led", "inv", "month">>

\* the date columns of date_cols_map
DateColumns(t) ==
    CASE t = "emp" -> {"pay_date"}
      [] t = "pur" -> {"acq_date"}
      [] t = "led" -> {"entry_date"}
      [] t = "inv" -> {"intake_date", "completion_date"}
      [] OTHER     -> {}

\* the cells of one column, one per row
ColumnOf(df, col) == [i \in 1..Len(df.rows) |-> df.rows[i].c[col]]

\* a scalar broadcast to every row
Broadcast(df, v) == [i \in 1..Len(df.rows) |-> v]

\* normalize_ym on a series
normalize_ym_series(series) == [i \in 1..Len(series) |-> normalize_ym(series[i])]

\* pd.to_datetime(series, errors='coerce').dt.strftime('%Y-%m')
DerivePeriodSeries(series) == [i \in 1..Len(series) |-> DerivePeriod(series[i])]

\* pd.to_datetime(series, errors="coerce").dt.date
ToDateSeries(series) == [i \in 1..Len(series) |-> ToDate(series[i])]

\* common step 1: the period column
NormalizePeriodColumn(df) ==
    IF "period_src" \in df.cols
    THEN SetColumn(df, "ym", normalize_ym_series(ColumnOf(df, "period_src")))
    ELSE IF "ym" \notin df.cols
    THEN SetColumn(df, "ym", Broadcast(df, StrCell(<<>>)))
    ELSE df

RECURSIVE CoerceDates(_, _)
CoerceDates(df, cols) ==
    IF cols = {} THEN df
    ELSE LET col == CHOOSE x \in cols : TRUE
             nxt == IF col \in df.cols
                    THEN SetColumn(df, col, ToDateSeries(ColumnOf(df, col)))
                    ELSE df
         IN  CoerceDates(nxt, cols \ {col})

\* common step 2: the date columns
NormalizeDateColumns(t, df) == CoerceDates(df, DateColumns(t))

-----------------------------------------------------------------------------
(* categorize_ledger_row *)

\* Python's `kw in text`
Contains(t, kw) ==
    \E i \in 1..(Len(t) - Len(kw) + 1) : SubSeq(t, i, i + Len(kw) - 1) = kw

ContainsAny(t, kws) == \E i \in 1..Len(kws) : Contains(t, kws[i])

Absent == [k |-> "absent"]

\* the default income type label
Employee == StrCell(<<"jik", "won">>)

\* str(row.get(col, "")): a missing column gives "", a NaN cell gives "nan"
RowGet(c) == IF c.k = "absent" THEN <<>> ELSE AsStr(c)

KwChadae       == <<"cha", "dae">>
KwSangsaIjeon  == <<"sang", "sa", "i", "jeon">>
KwMaeip        == <<"mae", "ip">>
KwPanmae       == <<"pan", "mae">>
KwMaechul      == <<"mae", "chul">>

LaborKeywords ==
    << <<"geup", "yeo">>, <<"in", "geon", "bi">>, <<"sang", "yeo">>,
       <<"il", "dang">>, <<"geup", "ryo">>, <<"4", "dae", "bo", "heom">> >>

FixedKeywords ==
    << <<"im", "dae", "ryo">>, <<"wol", "se">>, <<"jeon", "se">>,
       <<"bo", "jeung", "geum">>, <<"geon", "mul", "gwan", "ri", "bi">>,
       <<"gwan", "ri", "bi">> >>

TaxKeywords ==
    << <<"bu", "ga", "se">>, <<"so", "deuk", "se">>, <<"won", "cheon", "se">>,
       <<"ji", "bang", "se">>, <<"se", "geum">> >>

VariableKeywords ==
    << <<"gwang", "go">>, <<"hong", "bo">>, <<"su", "su", "ryo">>,
       <<"ka", "deu", "su", "su", "ryo">>, <<"tong", "sin", "bi">>,
       <<"jeon", "gi", "ryo">>, <<"so", "mo", "pum">>, <<"jap", "bi">>,
       <<"yu", "ryu">>, <<"ju", "yu">> >>

RepairKeywords ==
    << <<"gwang", "taek">>, <<"pan", "geum">>, <<"jeong", "bi">>,
       <<"su", "ri">> >>

Categories ==
    {"VehiclePurchase", "Sales", "Labor", "FixedCost", "Tax", "VariableCost",
     "Other"}

\* Mutant of categorize_ledger_row: the sales test is made before the
\* vehicle-purchase test.
categorize_sales_first(r) ==
    LET account == RowGet(r.acc)
        desc    == RowGet(r.desc)
    IN  IF Contains(desc, KwPanmae) \/ Contains(desc, KwMaechul) THEN "Sales"
        ELSE IF \/ Contains(account, KwChadae)
                \/ Contains(account, KwSangsaIjeon)
                \/ Contains(desc, KwMaeip) THEN "VehiclePurchase"
        ELSE IF ContainsAny(desc, LaborKeywords) THEN "Labor"
        ELSE IF ContainsAny(desc, FixedKeywords) THEN "FixedCost"
        ELSE IF ContainsAny(desc, TaxKeywords) THEN "Tax"
        ELSE IF ContainsAny(desc, VariableKeywords) THEN "VariableCost"
        ELSE IF ContainsAny(desc, RepairKeywords) THEN "VariableCost"
        ELSE "Other"

\* Mutant of categorize_ledger_row: the trailing repair/detailing test is
\* missing, so such rows fall through to the default.
categorize_no_repair(r) ==
    LET account == RowGet(r.acc)
        desc    == RowGet(r.desc)
    IN  IF \/ Contains(account, KwChadae)
           \/ Contains(account, KwSangsaIjeon)
           \/ Contains(desc, KwMaeip) THEN "VehiclePurchase"
        ELSE IF Contains(desc, KwPanmae) \/ Contains(desc, KwMaechul) THEN "Sales"
        ELSE IF ContainsAny(desc, LaborKeywords) THEN "Labor"
        ELSE IF ContainsAny(desc, FixedKeywords) THEN "FixedCost"
        ELSE IF ContainsAny(desc, TaxKeywords) THEN "Tax"
        ELSE IF ContainsAny(desc, VariableKeywords) THEN "VariableCost"
        ELSE "Other"

\* r.acc is the cell of the first column whose name contains the account
\* marker (Absent when there is none), r.desc the cell of the description
\* column.
categorize_ledger_row(r) ==
    LET account == RowGet(r.acc)
        desc    == RowGet(r.desc)
    IN  IF \/ Contains(account, KwChadae)
           \/ Contains(account, KwSangsaIjeon)
           \/ Contains(desc, KwMaeip) THEN "VehiclePurchase"
        ELSE IF Contains(desc, KwPanmae) \/ Contains(desc, KwMaechul) THEN "Sales"
        ELSE IF ContainsAny(desc, LaborKeywords) THEN "Labor"
        ELSE IF ContainsAny(desc, FixedKeywords) THEN "FixedCost"
        ELSE IF ContainsAny(desc, TaxKeywords) THEN "Tax"
        ELSE IF ContainsAny(desc, VariableKeywords) THEN "VariableCost"
        ELSE IF ContainsAny(desc, RepairKeywords) THEN "VariableCost"
        ELSE "Other"

-----------------------------------------------------------------------------
(* load_data *)

MaxSrcRows == 2

\* Content of the spreadsheets.  fsys.shape says which period column the
\* sheets carry ("src": the YYYY-MM source column, "ym": only the plain
\* period column, "none"), whether they carry their date columns, and what
\* the first row holds in those columns; later rows hold proper dates.
SrcCell(fsys, k, role) ==
    IF role = "other" THEN StrCell(<<"x">>)
    ELSE IF k = 1 THEN fsys.shape.cell
    ELSE DateCell(2024, k, 10)

MakeTable(fsys, t, periodCols, dateCols, otherCols) ==
    [cols |-> periodCols \cup dateCols \cup otherCols,
     rows |-> [k \in 1..MaxSrcRows |->
                 [id |-> <<t, k>>,
                  c  |-> [x \in periodCols \cup dateCols \cup otherCols |->
                            SrcCell(fsys, k,
                                    IF x \in periodCols THEN "period"
                                    ELSE IF x \in dateCols THEN "date"
                                    ELSE "other")]]]]

PeriodCols(fsys, srcName) ==
    CASE fsys.shape.periodKind = "src" -> {srcName}
      [] fsys.shape.periodKind = "ym"  -> {"ym"}
      [] OTHER                         -> {}

OtherCols(t) ==
    CASE t = "emp" -> {"emp_name", "settlement"}
      [] t = "pur" -> {"vehicle_id", "purchase_amount"}
      [] t = "led" -> {"desc", "deposit", "withdrawal"}
      [] t = "inv" -> {"vehicle_id", "manager", "cost"}
      [] OTHER     -> {"item"}

\* xls.parse(sheet) of the consolidated workbook
MasterSheet(fsys, t) ==
    MakeTable(fsys, t, IF t = "month" THEN {} ELSE PeriodCols(fsys, "period_src"),
              IF fsys.shape.dateCol THEN DateColumns(t) ELSE {},
              OtherCols(t) \cup (IF t = "emp" THEN {"income_type"} ELSE {})
                           \cup (IF t = "led" THEN {"account"} ELSE {}))

\* pd.read_excel(FILE_PATHS[t], ...) of a legacy workbook, Unnamed columns
\* dropped: the legacy column names
LegacyFile(fsys, t) ==
    MakeTable(fsys, t,
              IF t = "month" THEN {}
              ELSE PeriodCols(fsys, IF t = "emp" THEN "gwisok_ym" ELSE "period_src"),
              IF ~fsys.shape.dateCol THEN {}
              ELSE IF t = "emp" THEN {"pay_date_raw"} ELSE DateColumns(t),
              (OtherCols(t) \ {"emp_name"})
                 \cup (IF t = "emp" THEN {"name"} ELSE {})
                 \cup (IF t = "led" THEN {"account_raw"} ELSE {}))

\* (1) employee income
ReadLegacyEmp(fsys) ==
    IF fsys.legacy["emp"] # "ok" THEN EmptyDF
    ELSE LET renamed == RenameColumn(RenameColumn(RenameColumn(
                            LegacyFile(fsys, "emp"), "name", "emp_name"),
                            "gwisok_ym", "period_src"),
                            "pay_date_raw", "pay_date")
         IN  IF "income_type" \notin renamed.cols
             THEN SetColumn(renamed, "income_type", Broadcast(renamed, Employee))
             ELSE renamed

\* (2) vehicle purchase: a file without the acquisition date raises KeyError
ReadLegacyPur(fsys) ==
    LET temp == LegacyFile(fsys, "pur")
    IN  IF fsys.legacy["pur"] # "ok" \/ "acq_date" \notin temp.cols THEN EmptyDF
        ELSE SetColumn(temp, "period_src", DerivePeriodSeries(ColumnOf(temp, "acq_date")))

\* (3) ledger: a sheet without the entry date raises KeyError
ReadLegacyLed(fsys) ==
    LET temp == RenameColumn(LegacyFile(fsys, "led"), "account_raw", "account")
    IN  IF fsys.legacy["led"] # "ok" \/ "entry_date" \notin temp.cols THEN EmptyDF
        ELSE LET derived == SetColumn(temp, "period_src",
                                      DerivePeriodSeries(ColumnOf(temp, "entry_date")))
             IN  IF "related_employee" \notin derived.cols
                 THEN SetColumn(derived, "related_employee", Broadcast(derived, StrCell(<<>>)))
                 ELSE derived

\* (4) reconditioning
ReadLegacyInv(fsys) ==
    IF fsys.legacy["inv"] = "absent"
    THEN EmptyWithColumns({"vehicle_id", "manager", "cost", "period_src"})
    ELSE IF fsys.legacy["inv"] # "ok" THEN EmptyDF
    ELSE LET temp == LegacyFile(fsys, "inv")
         IN  IF "period_src" \notin temp.cols /\ "intake_date" \in temp.cols
             THEN SetColumn(temp, "period_src",
                            DerivePeriodSeries(ColumnOf(temp, "intake_date")))
             ELSE temp

\* (5) monthly report
ReadLegacyMonth(fsys) ==
    IF fsys.legacy["month"] # "ok" THEN EmptyDF ELSE LegacyFile(fsys, "month")

ReadLegacy(fsys, t) ==
    CASE t = "emp" -> ReadLegacyEmp(fsys)
      [] t = "pur" -> ReadLegacyPur(fsys)
      [] t = "led" -> ReadLegacyLed(fsys)
      [] t = "inv" -> ReadLegacyInv(fsys)
      [] OTHER     -> ReadLegacyMonth(fsys)

\* Mutant of LegacyTables: one try block around all the legacy reads, so the
\* tables after a failed read stay empty.
LegacyTablesSharedTry(fsys) ==
    [t \in TableIds |->
        IF \E i \in 1..Len(TableOrder) :
              /\ ReadLegacy(fsys, TableOrder[i]).rows = <<>>
              /\ \E j \in i..Len(TableOrder) : TableOrder[j] = t
        THEN EmptyDF
        ELSE ReadLegacy(fsys, t)]

\* the five legacy reads, each in its own try block
LegacyTables(fsys) == [t \in TableIds |-> ReadLegacy(fsys, t)]

\* common post-processing of the five tables
PostProcess(df_dict) ==
    [t \in TableIds |-> NormalizeDateColumns(t, NormalizePeriodColumn(df_dict[t]))]

NoData == [kind |-> "none"]

Loaded(df_dict) == [kind |-> "tables", df |-> df_dict]

\* Mutant of load_data: an unreadable consolidated workbook falls back to
\* the legacy files.
load_data_fallback_on_error(fsys) ==
    IF fsys.master = "ok" /\ fsys.missing = {}
    THEN Loaded(PostProcess([t \in TableIds |-> MasterSheet(fsys, t)]))
    ELSE IF fsys.legacy["emp"] = "absent" THEN NoData
    ELSE Loaded(PostProcess(LegacyTables(fsys)))

\* fsys.master: "absent" (os.path.exists is false), "unreadable"
\* (pd.ExcelFile raises) or "ok"; fsys.missing: the sheets xls.parse raises on
load_data(fsys) ==
    IF fsys.master # "absent"
    THEN IF fsys.master = "unreadable" \/ fsys.missing # {}
         THEN NoData
         ELSE Loaded(PostProcess([t \in TableIds |-> MasterSheet(fsys, t)]))
    ELSE IF fsys.legacy["emp"] = "absent" THEN NoData
    ELSE Loaded(PostProcess(LegacyTables(fsys)))

-----------------------------------------------------------------------------
(* Specification of the loader: the files on disk, then one load_data call *)

MaxFailures == 1

PeriodSamples ==
    {StrCell(<<"2", "0", "2", "4", "-", "0", "3", "-", "1", "5">>),
     DateCell(2024, 3, 15),
     StrCell(<<"mi", "jeong">>),
     Null}

Shapes == [periodKind : {"src", "ym", "none"}, dateCol : BOOLEAN, cell : PeriodSamples]

LegacyStates ==
    {l \in [TableIds -> {"absent", "bad", "ok"}] :
        Cardinality({t \in TableIds : l[t] # "ok"}) <= MaxFailures}

MissingSheets == {m \in SUBSET TableIds : Cardinality(m) <= MaxFailures}

FileSystems ==
    {[master |-> ms, missing |-> mi, legacy |-> l, shape |-> sh] :
        ms \in {"absent", "unreadable", "ok"}, mi \in MissingSheets,
        l \in LegacyStates, sh \in Shapes}

Init ==
    /\ fs \in {f \in FileSystems : f.master # "ok" => f.missing = {}}
    /\ data = NoData
    /\ pc = "start"
    /\ row = Idle /\ category = <<>>
    /\ tables = Idle /\ ym = Idle /\ summary = <<>>
    /\ columns = Idle /\ names = <<>>
    /\ numIn = Idle /\ numOut = Idle /\ numOut2 = Idle

Load ==
    /\ pc = "start"
    /\ data' = load_data(fs)
    /\ pc' = "loaded"
    /\ UNCHANGED <<fs, row, category, tables, ym, summary, columns, names,
                   numIn, numOut, numOut2>>

Next == Load

Spec == Init /\ [][Next]_vars

\* the consolidated workbook opens and all five sheets parse
MasterReadable == fs.master = "ok" /\ fs.missing = {}

\* the consolidated workbook is absent, or is there but cannot be read
MasterUnavailable == ~MasterReadable

\* C1 as stated: whenever the consolidated workbook is absent or unreadable
\* and the legacy employee income file exists, load returns the tables; the
\* sentinel is returned only when neither is available; load never raises.
C1_FallbackWhenUnreadable ==
    pc = "loaded" =>
        /\ data.kind \in {"tables", "none"}
        /\ (MasterUnavailable /\ fs.legacy["emp"] # "absent") => data.kind = "tables"
        /\ data.kind = "none" => (MasterUnavailable /\ fs.legacy["emp"] = "absent")

\* C1 amended: load falls back to the legacy files only when the
\* consolidated workbook is absent; it returns the tables exactly when the
\* workbook is readable, or is absent while the legacy employee income file
\* exists (then with the rows of that file when it reads); a workbook that
\* exists but cannot be read gives the sentinel; load never raises.
C1_FallbackWhenAbsent ==
    pc = "loaded" =>
        /\ data.kind \in {"tables", "none"}
        /\ data.kind = "tables" <=>
              \/ MasterReadable
              \/ fs.master = "absent" /\ fs.legacy["emp"] # "absent"
        /\ (fs.master = "absent" /\ fs.legacy["emp"] = "ok")
             => Len(data.df["emp"].rows) = MaxSrcRows

\* no consolidated workbook, all legacy files readable: the tables come back
C1_Witness ==
    /\ pc = "loaded"
    /\ fs.master = "absent"
    /\ \A t \in TableIds : fs.legacy[t] = "ok"
    /\ fs.shape.dateCol
    /\ data.kind = "tables"
    /\ Len(data.df["emp"].rows) = MaxSrcRows
    /\ Len(data.df["led"].rows) = MaxSrcRows

\* the legacy read of table t fails: the file is missing or malformed, or
\* lacks the date column its reader needs
LegacyFailed(t) ==
    \/ fs.legacy[t] # "ok"
    \/ t \in {"pur", "led"} /\ ~fs.shape.dateCol

RowIds(df) == [i \in 1..Len(df.rows) |-> df.rows[i].id]

OwnRows(t) == [k \in 1..MaxSrcRows |-> <<t, k>>]

\* table t of the result is empty and every other table holds its own rows
OnlyEmpty(t) ==
    /\ data.kind = "tables"
    /\ data.df[t].rows = <<>>
    /\ \A u \in TableIds \ {t} : RowIds(data.df[u]) = OwnRows(u)

\* C2 as stated: on either load path, when the read of a single table
\* fails, that table is empty, the other four hold the rows of their own
\* source, and the result is not the sentinel.
C2_PartialFailureAnyPath ==
    pc = "loaded" =>
        \A t \in TableIds :
            /\ (fs.master = "ok" /\ fs.missing = {t}) => OnlyEmpty(t)
            /\ (fs.master = "absent" /\ {u \in TableIds : LegacyFailed(u)} = {t})
                 => OnlyEmpty(t)

\* C2 amended: on the legacy path with the employee income file present,
\* every table whose read fails is empty and every other table holds the
\* rows of its own source; a missing employee income file, and any failing
\* sheet of the consolidated workbook, give the sentinel.
C2_PartialFailureLegacy ==
    pc = "loaded" =>
        /\ (fs.master = "absent" /\ fs.legacy["emp"] # "absent") =>
              /\ data.kind = "tables"
              /\ \A t \in TableIds :
                    RowIds(data.df[t]) = IF LegacyFailed(t) THEN <<>> ELSE OwnRows(t)
        /\ (fs.master = "absent" /\ fs.legacy["emp"] = "absent") => data = NoData
        /\ (fs.master # "absent" /\ ~MasterReadable) => data = NoData

\* the legacy purchase file is malformed: only the purchase table is empty
C2_Witness ==
    /\ pc = "loaded"
    /\ fs.master = "absent"
    /\ fs.legacy["pur"] = "bad"
    /\ {u \in TableIds : LegacyFailed(u)} = {"pur"}
    /\ OnlyEmpty("pur")

\* the period token of a cell: YYYY-MM when it is a date, else its text
PeriodToken(c) ==
    IF ToDatetime(c).ok THEN StrfYm(ToDatetime(c)) ELSE AsStr(c)

\* C3: after a successful load every row of tables 1-4 whose source has the
\* direct period column, or (tables 2-4) the source's date column, has as its
\* period the YYYY-MM token of that cell, or the cell's original text when
\* the cell is not a date; the period is never null or a placeholder.
C3_PeriodAlwaysPresent ==
    (pc = "loaded" /\ data.kind = "tables") =>
        \A t \in {"emp", "pur", "led", "inv"} :
            \A i \in 1..Len(data.df[t].rows) :
                LET r == data.df[t].rows[i]
                    k == r.id[2]
                IN  (\/ fs.shape.periodKind # "none"
                     \/ t # "emp" /\ fs.shape.dateCol)
                      => r.c["ym"] = StrCell(PeriodToken(SrcCell(fs, k, "period")))

-----------------------------------------------------------------------------
(* Specification of the classifier calls *)

MaxExtra == 1

MaxCalls == 2

SeqRange(s) == {s[i] : i \in 1..Len(s)}

DescKeywords ==
    {KwMaeip, KwPanmae, KwMaechul} \cup SeqRange(LaborKeywords)
      \cup SeqRange(FixedKeywords) \cup SeqRange(TaxKeywords)
      \cup SeqRange(VariableKeywords) \cup SeqRange(RepairKeywords)

\* first part of a description: every keyword, the account markers, filler
DescHeads ==
    DescKeywords \cup {KwChadae, KwSangsaIjeon, <<>>, <<"geum">>, <<"bi">>,
                       <<"mae">>}

\* later parts: one keyword of every rule, and syllables that complete a
\* keyword across the boundary
DescTails ==
    {KwMaeip, KwMaechul, <<"geup", "yeo">>, <<"wol", "se">>, <<"se", "geum">>,
     <<"jap", "bi">>, <<"su", "ri">>, <<"geum">>, <<"ip">>, <<" ">>}

RECURSIVE TailsUpTo(_)
TailsUpTo(n) ==
    IF n = 0 THEN {<<>>}
    ELSE LET shorter == TailsUpTo(n - 1)
         IN  shorter \cup {t \o p : t \in shorter, p \in DescTails}

DescCells ==
    {StrCell(h \o t) : h \in DescHeads, t \in TailsUpTo(MaxExtra)}
      \cup {Null, Absent}

AccountCells ==
    {Absent, Null, StrCell(<<>>), StrCell(KwChadae),
     StrCell(<<"jang", "bu">> \o KwSangsaIjeon), StrCell(KwMaeip),
     StrCell(KwPanmae)}

LedgerRows == [acc : AccountCells, desc : DescCells]

ClassInit ==
    /\ row \in LedgerRows
    /\ category = <<>>
    /\ pc = "classify"
    /\ fs = Idle /\ data = Idle
    /\ tables = Idle /\ ym = Idle /\ summary = Idle
    /\ columns = Idle /\ names = Idle
    /\ numIn = Idle /\ numOut = Idle /\ numOut2 = Idle

Categorize ==
    /\ pc = "classify"
    /\ Len(category) < MaxCalls
    /\ category' = Append(category, categorize_ledger_row(row))
    /\ UNCHANGED <<fs, data, row, tables, ym, summary, columns, names,
                   numIn, numOut, numOut2, pc>>

ClassNext == Categorize

ClassSpec == ClassInit /\ [][ClassNext]_vars

\* The rules of the classifier, one predicate per rule, in rule order
RuleCategory ==
    <<"VehiclePurchase", "Sales", "Labor", "FixedCost", "Tax", "VariableCost">>

RuleHit(i, r) ==
    LET account == RowGet(r.acc)
        desc    == RowGet(r.desc)
        hit(kws) == \E kw \in kws : Contains(desc, kw)
    IN  CASE i = 1 -> \/ \E kw \in {KwChadae, KwSangsaIjeon} : Contains(account, kw)
                      \/ hit({KwMaeip})
          [] i = 2 -> hit({KwPanmae, KwMaechul})
          [] i = 3 -> hit(SeqRange(LaborKeywords))
          [] i = 4 -> hit(SeqRange(FixedKeywords))
          [] i = 5 -> hit(SeqRange(TaxKeywords))
          [] i = 6 -> hit(SeqRange(VariableKeywords) \cup SeqRange(RepairKeywords))

RulesHit(r) == {i \in 1..6 : RuleHit(i, r)}

\* C4: every call of the classifier returns one category of the fixed set,
\* it returns Other exactly when no keyword rule matches the row, and all
\* calls on the same row return the same category.
C4_ClassifierTotal ==
    \A i \in 1..Len(category) :
        /\ category[i] \in Categories
        /\ (category[i] = "Other") <=> (RulesHit(row) = {})
        /\ category[i] = category[1]

\* a row with missing account and description was classified twice as Other
C4_Witness ==
    /\ Len(category) = 2
    /\ row.acc = Absent /\ row.desc = Null
    /\ category[2] = "Other"

\* C5: the first matching rule wins: the category is that of the least rule
\* that matches; an account containing the trade-in marker gives
\* VehiclePurchase whatever the description, and a description with both a
\* purchase and a sale marker gives VehiclePurchase.
C5_FirstMatchWins ==
    \A i \in 1..Len(category) :
        /\ RulesHit(row) # {} =>
             \A j \in RulesHit(row) :
                 (\A l \in RulesHit(row) : j <= l) => category[i] = RuleCategory[j]
        /\ Contains(RowGet(row.acc), KwSangsaIjeon) => category[i] = "VehiclePurchase"
        /\ (Contains(RowGet(row.desc), KwMaeip)
              /\ (Contains(RowGet(row.desc), KwPanmae)
                    \/ Contains(RowGet(row.desc), KwMaechul)))
             => category[i] = "VehiclePurchase"

\* a description holding a sale marker followed by a purchase marker was
\* classified
C5_Witness ==
    /\ Len(category) >= 1
    /\ row.desc = StrCell(KwPanmae \o KwMaeip)
    /\ row.acc = Absent
    /\ category[1] = "VehiclePurchase"

-----------------------------------------------------------------------------
(* is_excluded_income_type and compute_auto_month_summary *)

IsSpace(c) == c \in {" ", "\t"}

RECURSIVE LStrip(_)
LStrip(t) == IF t # <<>> /\ IsSpace(t[1]) THEN LStrip(Tail(t)) ELSE t

RECURSIVE RStrip(_)
RStrip(t) ==
    IF t # <<>> /\ IsSpace(t[Len(t)]) THEN RStrip(SubSeq(t, 1, Len(t) - 1)) ELSE t

\* str.strip()
Strip(t) == LStrip(RStrip(t))

\* str.lower() on one character: only cased letters change; Hangul
\* syllables, digits and punctuation have no case
LowerChar(c) ==
    CASE c = "A" -> "a" [] c = "B" -> "b" [] c = "K" -> "k" [] c = "L" -> "l"
      [] OTHER -> c

Lower(t) == [i \in 1..Len(t) |-> LowerChar(t[i])]

EXCLUDE_INCOME_KEYWORDS ==
    << <<"oe", "bu">>, <<"bi", "jik", "won">>, <<"gi", "ta">>, <<"je", "oe">> >>

\* Mutant of is_excluded_income_type: only the first keyword is tested.
is_excluded_first_keyword_only(value) ==
    IF value.k = "null" THEN FALSE
    ELSE LET v == Strip(AsStr(value))
         IN  IF v = <<>> THEN FALSE
             ELSE Contains(Lower(v), Lower(EXCLUDE_INCOME_KEYWORDS[1]))

is_excluded_income_type(value) ==
    IF value.k = "null" THEN FALSE
    ELSE LET v == Strip(AsStr(value))
         IN  IF v = <<>> THEN FALSE
             ELSE \E i \in 1..Len(EXCLUDE_INCOME_KEYWORDS) :
                      Contains(Lower(v), Lower(EXCLUDE_INCOME_KEYWORDS[i]))

RECURSIVE SumSeq(_)
SumSeq(s) == IF s = <<>> THEN 0 ELSE s[1] + SumSeq(Tail(s))

\* int(clean_numeric(df[col]).sum())
SumColumn(rows, col) == SumSeq([i \in 1..Len(rows) |-> clean_numeric(rows[i][col])])

\* df[df["ym"] == p]
FilterPeriod(rows, p) == SelectSeq(rows, LAMBDA r : r.ym = p)

LineItem(p, cat, detail, amount, source, note) ==
    [ym |-> p, category |-> cat, detail |-> detail, amount |-> amount,
     source |-> source, note |-> note]

\* Mutant of EmitIfNonZero: the zero test is missing.
EmitAlways(total, item) == <<item>>

\* `if total != 0: rows.append(item)`
EmitIfNonZero(total, item) == IF total # 0 THEN <<item>> ELSE <<>>

\* DataFrame.empty for a table that has at least one column
IsEmpty(df) == df.rows = <<>>

\* step 1: employee income
SummaryEmp(df_emp, p) ==
    IF IsEmpty(df_emp) THEN <<>>
    ELSE LET month == FilterPeriod(df_emp.rows, p)
             kept  == IF "income_type" \in df_emp.cols
                      THEN SelectSeq(month,
                             LAMBDA r : ~is_excluded_income_type(r.income_type))
                      ELSE month
         IN  IF "settlement" \in df_emp.cols
             THEN LET total == SumColumn(kept, "settlement")
                  IN  EmitIfNonZero(total,
                        LineItem(p, "Labor", "emp_settlement", total,
                                 "EmployeeIncome", "external_excluded"))
             ELSE <<>>

\* step 2: vehicle purchase
SummaryPur(df_pur, p) ==
    IF ~IsEmpty(df_pur) /\ "purchase_amount" \in df_pur.cols
    THEN LET total == SumColumn(FilterPeriod(df_pur.rows, p), "purchase_amount")
         IN  EmitIfNonZero(total,
               LineItem(p, "VehiclePurchase", "purchase_amount", total,
                        "VehiclePurchase", ""))
    ELSE <<>>

\* step 3: reconditioning
SummaryInv(df_inv, p) ==
    IF ~IsEmpty(df_inv) /\ "cost" \in df_inv.cols
    THEN LET total == SumColumn(FilterPeriod(df_inv.rows, p), "cost")
         IN  EmitIfNonZero(total,
               LineItem(p, "VariableCost", "reconditioning_cost", total,
                        "Reconditioning", ""))
    ELSE <<>>

\* the row as categorize_ledger_row sees it
LedgerRowView(df_led, r) ==
    [acc  |-> IF "account" \in df_led.cols THEN r.account ELSE Absent,
     desc |-> IF "desc" \in df_led.cols THEN r.desc ELSE Absent]

\* groupby("auto_category") iterates its groups in sorted key order; the
\* keys are the Korean category labels, whose code-point order is
\* FixedCost < Other < Sales < VariableCost < Tax < Labor < VehiclePurchase
GroupOrder ==
    <<"FixedCost", "Other", "Sales", "VariableCost", "Tax", "Labor",
      "VehiclePurchase">>

\* Mutant of SummarySales: the deposits of all period rows are summed,
\* whatever their category.
SummarySalesAllDeposits(df_led, month, p) ==
    IF "deposit" \in df_led.cols
    THEN LET income == SelectSeq(month, LAMBDA r : clean_numeric(r.deposit) > 0)
             total  == SumColumn(income, "deposit")
         IN  EmitIfNonZero(total,
               LineItem(p, "Sales", "ledger_sales_deposit", total, "Ledger", ""))
    ELSE <<>>

\* step 4a: sales, by deposit
SummarySales(df_led, month, p) ==
    IF "deposit" \in df_led.cols
    THEN LET income == SelectSeq(month,
                         LAMBDA r : /\ clean_numeric(r.deposit) > 0
                                    /\ categorize_ledger_row(LedgerRowView(df_led, r))
                                         = "Sales")
             total  == SumColumn(income, "deposit")
         IN  EmitIfNonZero(total,
               LineItem(p, "Sales", "ledger_sales_deposit", total, "Ledger", ""))
    ELSE <<>>

RECURSIVE ExpenseGroups(_, _, _, _)
ExpenseGroups(df_led, expense, p, i) ==
    IF i > Len(GroupOrder) THEN <<>>
    ELSE LET cat  == GroupOrder[i]
             grp  == SelectSeq(expense,
                       LAMBDA r : categorize_ledger_row(LedgerRowView(df_led, r)) = cat)
             val  == SumColumn(grp, "withdrawal")
             item == IF grp = <<>> \/ cat = "Sales" \/ val = 0 THEN <<>>
                     ELSE <<LineItem(p, cat, "ledger_withdrawal", val, "Ledger",
                                     "auto_classified")>>
         IN  item \o ExpenseGroups(df_led, expense, p, i + 1)

\* step 4b: expenses, by withdrawal, one group per category
SummaryExpenses(df_led, month, p) ==
    IF "withdrawal" \in df_led.cols
    THEN LET expense == SelectSeq(month, LAMBDA r : clean_numeric(r.withdrawal) > 0)
         IN  ExpenseGroups(df_led, expense, p, 1)
    ELSE <<>>

\* step 4: ledger
SummaryLed(df_led, p) ==
    IF IsEmpty(df_led) THEN <<>>
    ELSE LET month == FilterPeriod(df_led.rows, p)
         IN  IF month = <<>> THEN <<>>
             ELSE SummarySales(df_led, month, p) \o SummaryExpenses(df_led, month, p)

\* Mutant of compute_auto_month_summary: the ledger step runs before the
\* reconditioning step.
compute_ledger_before_inv(df_emp, df_pur, df_led, df_inv, p) ==
    SummaryEmp(df_emp, p) \o SummaryPur(df_pur, p) \o SummaryLed(df_led, p)
      \o SummaryInv(df_inv, p)

compute_auto_month_summary(df_emp, df_pur, df_led, df_inv, p) ==
    SummaryEmp(df_emp, p) \o SummaryPur(df_pur, p) \o SummaryInv(df_inv, p)
      \o SummaryLed(df_led, p)

-----------------------------------------------------------------------------
(* Specification of the aggregator calls *)

MaxRows == 2

RECURSIVE SeqsUpTo(_, _)
SeqsUpTo(S, n) ==
    IF n = 0 THEN {<<>>}
    ELSE LET shorter == SeqsUpTo(S, n - 1)
         IN  shorter \cup {Append(q, x) : q \in shorter, x \in S}

P1 == <<"2", "0", "2", "4", "-", "0", "5">>
P2 == <<"2", "0", "2", "4", "-", "0", "6">>
P3 == <<"2", "0", "2", "4", "-", "0", "7">>

EmpCols == {"ym", "income_type", "settlement"}
PurCols == {"ym", "purchase_amount"}
InvCols == {"ym", "cost"}
LedCols == {"ym", "account", "desc", "deposit", "withdrawal"}

EmpLabels ==
    {Null, StrCell(<<" ">>), Employee, StrCell(<<"oe", "bu">>),
     StrCell(<<" ", "bi", "jik", "won", " ">>)}

EmpRows ==
    [ym : {P1, P2}, income_type : EmpLabels,
     settlement : {IntCell(100), IntCell(-100), Null}]

EmpRow(p, label, amt) == [ym |-> p, income_type |-> label, settlement |-> amt]
PurRow(p, amt) == [ym |-> p, purchase_amount |-> amt]
InvRow(p, amt) == [ym |-> p, cost |-> amt]
LedRow(p, acc, desc, dep, wd) ==
    [ym |-> p, account |-> acc, desc |-> desc, deposit |-> dep, withdrawal |-> wd]

LedTexts ==
    { <<StrCell(<<>>), StrCell(KwMaechul)>>,
      <<StrCell(<<>>), StrCell(<<"geup", "yeo">>)>>,
      <<StrCell(<<>>), StrCell(KwMaeip)>>,
      <<StrCell(KwChadae), StrCell(KwMaechul)>>,
      <<StrCell(<<>>), StrCell(<<"x">>)>> }

LedRows ==
    {LedRow(p, t[1], t[2], dep, wd) :
        p \in {P1, P2}, t \in LedTexts,
        dep \in {IntCell(0), IntCell(10)},
        wd \in {IntCell(0), StrCell(<<"2", ",", "0">>)}}

Table(cols, rows) == [cols |-> cols, rows |-> rows]

Sale10   == LedRow(P1, StrCell(<<>>), StrCell(KwPanmae), IntCell(10), IntCell(0))
Labor20  == LedRow(P1, StrCell(<<>>), StrCell(<<"geup", "yeo">>), IntCell(0), IntCell(20))
Tax5     == LedRow(P1, StrCell(<<>>), StrCell(<<"se", "geum">>), IntCell(7), IntCell(5))
Rent30   == LedRow(P1, Null, StrCell(<<"wol", "se">>), Null, IntCell(30))
Refund3  == LedRow(P1, StrCell(<<>>), StrCell(<<"x">>), IntCell(0), StrCell(<<"-", "3">>))
SaleWd   == LedRow(P1, StrCell(<<>>), StrCell(KwMaechul), IntCell(-10), IntCell(4))
Later    == LedRow(P2, StrCell(<<>>), StrCell(<<"su", "ri">>), IntCell(0), IntCell(9))

\* one table varies over every row sequence, the others are fixed
EmpFocus ==
    {[emp |-> Table(c, rows),
      pur |-> Table(PurCols, <<PurRow(P1, IntCell(50))>>),
      inv |-> Table(InvCols, <<>>),
      led |-> Table(LedCols, <<Labor20>>)] :
        c \in {EmpCols, EmpCols \ {"income_type"}},
        rows \in SeqsUpTo(EmpRows, MaxRows)}

LedFocus ==
    {[emp |-> Table(EmpCols, <<EmpRow(P1, Employee, IntCell(100))>>),
      pur |-> Table(PurCols, <<>>),
      inv |-> Table(InvCols, <<InvRow(P1, IntCell(70))>>),
      led |-> Table(LedCols, rows)] :
        rows \in SeqsUpTo(LedRows, MaxRows)}

\* all four tables vary together over a few tables each
MixFocus ==
    [emp : {Table(EmpCols, <<>>),
            Table(EmpCols, <<EmpRow(P1, Employee, IntCell(100))>>),
            Table(EmpCols, <<EmpRow(P1, Employee, IntCell(100)),
                             EmpRow(P1, Null, IntCell(-100))>>),
            Table(EmpCols, <<EmpRow(P2, Employee, IntCell(100))>>),
            Table(EmpCols \ {"settlement"}, <<EmpRow(P1, Employee, IntCell(100))>>)},
     pur : {Table(PurCols, <<>>),
            Table(PurCols, <<PurRow(P1, IntCell(50))>>),
            Table(PurCols, <<PurRow(P1, Null), PurRow(P2, IntCell(50))>>),
            Table(PurCols \ {"purchase_amount"}, <<PurRow(P1, IntCell(50))>>)},
     inv : {Table(InvCols, <<>>),
            Table(InvCols, <<InvRow(P1, StrCell(<<"7", ",", "0">>))>>),
            Table(InvCols, <<InvRow(P1, StrCell(<<"a">>)), InvRow(P2, IntCell(70))>>),
            Table(InvCols \ {"cost"}, <<InvRow(P1, IntCell(70))>>)},
     led : {Table(LedCols, <<>>),
            Table(LedCols, <<Sale10>>),
            Table(LedCols, <<Labor20, Tax5, Sale10, Rent30>>),
            Table(LedCols, <<Refund3, SaleWd>>),
            Table(LedCols, <<Later>>),
            Table(LedCols \ {"deposit"}, <<Sale10, Labor20>>),
            Table(LedCols \ {"withdrawal", "account"}, <<Sale10, Labor20>>)}]

SumInit ==
    /\ \/ tables \in EmpFocus \cup LedFocus /\ ym = P1
       \/ tables \in MixFocus /\ ym \in {P1, P2, P3}
    /\ summary = <<>>
    /\ pc = "summarize"
    /\ fs = Idle /\ data = Idle /\ row = Idle /\ category = <<>>
    /\ columns = Idle /\ names = Idle
    /\ numIn = Idle /\ numOut = Idle /\ numOut2 = Idle

Summarize ==
    /\ pc = "summarize"
    /\ summary' = compute_auto_month_summary(tables.emp, tables.pur, tables.led,
                                             tables.inv, ym)
    /\ pc' = "summarized"
    /\ UNCHANGED <<fs, data, row, category, tables, ym, columns, names,
                   numIn, numOut, numOut2>>

SumNext == Summarize

SumSpec == SumInit /\ [][SumNext]_vars

Items(source) == SelectSeq(summary, LAMBDA it : it.source = source)

\* the label holds one of the four exclusion keywords
LabelExcluded(c) ==
    /\ c.k = "str"
    /\ \E kw \in {<<"oe", "bu">>, <<"bi", "jik", "won">>, <<"gi", "ta">>,
                  <<"je", "oe">>} : Contains(c.v, kw)

\* period rows of the employee table that count toward labor
LaborRows ==
    SelectSeq(tables.emp.rows,
        LAMBDA r : /\ r.ym = ym
                   /\ ~("income_type" \in tables.emp.cols
                          /\ LabelExcluded(r.income_type)))

LaborSum == SumSeq([i \in 1..Len(LaborRows) |-> clean_numeric(LaborRows[i].settlement)])

\* C6: the Labor/EmployeeIncome line item's amount is the sum of
\* settlement_amount over the employee rows of the requested period whose
\* income type label holds no exclusion keyword (rows with an empty or
\* missing label included), and there is such an item when that sum is
\* not zero.
C6_LaborSum ==
    pc = "summarized" =>
        /\ \A i \in 1..Len(summary) :
               summary[i].source = "EmployeeIncome" =>
                   /\ summary[i].category = "Labor"
                   /\ summary[i].amount = LaborSum
        /\ Len(Items("EmployeeIncome")) <= 1
        /\ ("settlement" \in tables.emp.cols /\ LaborSum # 0)
             => Len(Items("EmployeeIncome")) = 1

\* an excluded row and a row with a null label are both in the period; only
\* the second is summed
C6_Witness ==
    /\ pc = "summarized"
    /\ tables.emp.rows = <<EmpRow(P1, StrCell(<<" ", "bi", "jik", "won", " ">>), IntCell(100)),
                           EmpRow(P1, Null, IntCell(-100))>>
    /\ "income_type" \in tables.emp.cols
    /\ Len(Items("EmployeeIncome")) = 1
    /\ Items("EmployeeIncome")[1].amount = -100

PeriodRows(df) == SelectSeq(df.rows, LAMBDA r : r.ym = ym)

\* C7: no line item has amount 0; a source whose period sum is zero has no
\* line item; with no row of any table in the period the result is empty.
C7_NoZeroItems ==
    pc = "summarized" =>
        /\ \A i \in 1..Len(summary) : summary[i].amount # 0
        /\ LaborSum = 0 => Items("EmployeeIncome") = <<>>
        /\ SumColumn(PeriodRows(tables.pur), "purchase_amount") = 0
             => Items("VehiclePurchase") = <<>>
        /\ SumColumn(PeriodRows(tables.inv), "cost") = 0
             => Items("Reconditioning") = <<>>
        /\ (\A t \in {"emp", "pur", "inv", "led"} : PeriodRows(tables[t]) = <<>>)
             => summary = <<>>

\* two employee rows of the period cancel, the purchase of the period is
\* null: neither source has a line item, the ledger has
C7_Witness ==
    /\ pc = "summarized"
    /\ Len(PeriodRows(tables.emp)) = 2 /\ LaborSum = 0
    /\ Len(PeriodRows(tables.pur)) = 1
    /\ Items("EmployeeIncome") = <<>> /\ Items("VehiclePurchase") = <<>>
    /\ Len(Items("Ledger")) >= 2

ItemRank(it) ==
    CASE it.source = "EmployeeIncome" -> 1
      [] it.source = "VehiclePurchase" -> 2
      [] it.source = "Reconditioning" -> 3
      [] it.source = "Ledger" /\ it.category = "Sales" -> 4
      [] OTHER -> 5

GroupIndex(cat) == CHOOSE i \in 1..Len(GroupOrder) : GroupOrder[i] = cat

\* C8: line items come in the order Labor, VehiclePurchase, Reconditioning,
\* Sales, ledger expenses (absent items skipped), and the ledger expense items
\* come in the fixed order of their category keys, so that identical inputs
\* give the same order.
C8_ItemOrder ==
    pc = "summarized" =>
        \A i, j \in 1..Len(summary) :
            i < j =>
                /\ ItemRank(summary[i]) <= ItemRank(summary[j])
                /\ ItemRank(summary[j]) <= 4
                     => ItemRank(summary[i]) < ItemRank(summary[j])
                /\ ItemRank(summary[i]) = 5
                     => GroupIndex(summary[i].category) < GroupIndex(summary[j].category)

\* all five kinds of line item are present
C8_Witness ==
    /\ pc = "summarized"
    /\ Len(summary) = 7
    /\ summary[1].source = "EmployeeIncome"
    /\ summary[2].source = "VehiclePurchase"
    /\ summary[3].source = "Reconditioning"
    /\ summary[4].category = "Sales"
    /\ summary[5].category = "FixedCost"
    /\ summary[6].category = "Tax"
    /\ summary[7].category = "Labor"

\* the category of a ledger row of the tables
LedgerCategory(r) == categorize_ledger_row(LedgerRowView(tables.led, r))

\* period rows classified Sales with a positive deposit
SalesDepositRows ==
    SelectSeq(PeriodRows(tables.led),
        LAMBDA r : LedgerCategory(r) = "Sales" /\ clean_numeric(r.deposit) > 0)

SalesDepositSum ==
    SumSeq([i \in 1..Len(SalesDepositRows) |-> clean_numeric(SalesDepositRows[i].deposit)])

\* period rows of category cat with a positive withdrawal
WithdrawalRows(cat) ==
    SelectSeq(PeriodRows(tables.led),
        LAMBDA r : LedgerCategory(r) = cat /\ clean_numeric(r.withdrawal) > 0)

WithdrawalSum(cat) ==
    LET rows == WithdrawalRows(cat)
    IN  SumSeq([i \in 1..Len(rows) |-> clean_numeric(rows[i].withdrawal)])

LedgerItems(cat) ==
    SelectSeq(summary, LAMBDA it : it.source = "Ledger" /\ it.category = cat)

\* C11: the Sales/Ledger line item is the sum of the positive deposits of
\* the period rows classified Sales; for every other category there is at
\* most one Ledger line item, the sum of the positive withdrawals of the
\* period rows of that category; nothing else enters a Ledger line item, so
\* the withdrawal of a Sales row and the deposit of a row that is not Sales
\* appear in none, and a row contributes to at most one line item.
C11_LedgerSums ==
    pc = "summarized" =>
        /\ Len(LedgerItems("Sales")) <= 1
        /\ \A i \in 1..Len(LedgerItems("Sales")) :
               LedgerItems("Sales")[i].amount = SalesDepositSum
        /\ ("deposit" \in tables.led.cols /\ SalesDepositSum # 0)
             => Len(LedgerItems("Sales")) = 1
        /\ \A cat \in Categories \ {"Sales"} :
               /\ Len(LedgerItems(cat)) <= 1
               /\ \A i \in 1..Len(LedgerItems(cat)) :
                      LedgerItems(cat)[i].amount = WithdrawalSum(cat)
               /\ ("withdrawal" \in tables.led.cols /\ WithdrawalSum(cat) # 0)
                    => Len(LedgerItems(cat)) = 1
        /\ \A i \in 1..Len(summary) :
               summary[i].source = "Ledger" => summary[i].category \in Categories

\* a Sales row and a Labor row of the period, each with a deposit of 10 and
\* a withdrawal of 20: the items are Sales 10 and Labor 20
C11_Witness ==
    /\ pc = "summarized"
    /\ tables.led.rows =
         <<LedRow(P1, StrCell(<<>>), StrCell(KwMaechul), IntCell(10),
                  StrCell(<<"2", ",", "0">>)),
           LedRow(P1, StrCell(<<>>), StrCell(<<"geup", "yeo">>), IntCell(10),
                  StrCell(<<"2", ",", "0">>))>>
    /\ Len(Items("Ledger")) = 2
    /\ LedgerItems("Sales")[1].amount = 10
    /\ LedgerItems("Labor")[1].amount = 20

-----------------------------------------------------------------------------
(* Candidate lists of the employee and vehicle searches *)

\* code point of a character (the characters the index inputs are made of)
Ord(c) ==
    CASE c = " " -> 32 [] c = "-" -> 45 [] c = "1" -> 49 [] c = "K" -> 75
      [] c = "a" -> 97 [] c = "n" -> 110

\* Python's `a < b` on str: lexicographic by code point
RECURSIVE TextLess(_, _)
TextLess(a, b) ==
    IF b = <<>> THEN FALSE
    ELSE IF a = <<>> THEN TRUE
    ELSE IF a[1] # b[1] THEN Ord(a[1]) < Ord(b[1])
    ELSE TextLess(Tail(a), Tail(b))

\* series.dropna().astype(str) of one column
ColumnValues(col) ==
    LET kept == SelectSeq(col, LAMBDA c : c.k # "null")
    IN  [i \in 1..Len(kept) |-> AsStr(kept[i])]

RECURSIVE ConcatAll(_)
ConcatAll(lists) ==
    IF lists = <<>> THEN <<>> ELSE lists[1] \o ConcatAll(Tail(lists))

\* Series.unique(): first occurrences, in order
RECURSIVE Unique(_)
Unique(s) ==
    IF s = <<>> THEN <<>>
    ELSE LET init == Unique(SubSeq(s, 1, Len(s) - 1))
             x    == s[Len(s)]
         IN  IF \E i \in 1..Len(init) : init[i] = x THEN init ELSE Append(init, x)

RECURSIVE InsertSorted(_, _)
InsertSorted(s, x) ==
    IF s = <<>> THEN <<x>>
    ELSE IF TextLess(x, s[1]) THEN <<x>> \o s
    ELSE <<s[1]>> \o InsertSorted(Tail(s), x)

\* sorted(list) (stable)
RECURSIVE Sorted(_)
Sorted(s) ==
    IF s = <<>> THEN <<>>
    ELSE InsertSorted(Sorted(SubSeq(s, 1, Len(s) - 1)), s[Len(s)])

AbsentColumn == [present |-> FALSE, cells |-> <<>>]
Column(cells) == [present |-> TRUE, cells |-> cells]

\* Mutant of build_candidates: unique() is left out.
build_candidates_no_unique(cols) ==
    LET names_list == SelectSeq(cols, LAMBDA c : c.present)
        values     == ConcatAll([i \in 1..Len(names_list) |->
                                    ColumnValues(names_list[i].cells)])
    IN  IF names_list = <<>> THEN <<>>
        ELSE Sorted(SelectSeq(values, LAMBDA n : Strip(n) # <<>>))

\* names_list / cars_list, concat, unique, blank filter, sorted
build_candidates(cols) ==
    LET names_list == SelectSeq(cols, LAMBDA c : c.present)
        values     == ConcatAll([i \in 1..Len(names_list) |->
                                    ColumnValues(names_list[i].cells)])
    IN  IF names_list = <<>> THEN <<>>
        ELSE Sorted(SelectSeq(Unique(values), LAMBDA n : Strip(n) # <<>>))

-----------------------------------------------------------------------------
(* Specification of the candidate list construction *)

MaxCells == 2

IndexCells ==
    {Null, IntCell(1), IntCell(-1)}
      \cup {StrCell(t) : t \in {<<>>, <<" ">>, <<" ", " ">>, <<"K">>, <<" ", "K">>,
                                <<"K", " ">>, <<"K", "a">>, <<"a">>, <<"1">>}}

IndexInit ==
    /\ columns \in
         {<<c1, c2>> :
             c1 \in {Column(cells) : cells \in SeqsUpTo(IndexCells, MaxCells)},
             c2 \in {AbsentColumn, Column(<<>>), Column(<<StrCell(<<"K">>)>>),
                     Column(<<StrCell(<<" ", "K">>), Null>>)}}
           \cup {<<AbsentColumn, AbsentColumn>>}
    /\ names = <<>>
    /\ pc = "index"
    /\ fs = Idle /\ data = Idle /\ row = Idle /\ category = <<>>
    /\ tables = Idle /\ ym = Idle /\ summary = <<>>
    /\ numIn = Idle /\ numOut = Idle /\ numOut2 = Idle

BuildCandidates ==
    /\ pc = "index"
    /\ names' = build_candidates(columns)
    /\ pc' = "indexed"
    /\ UNCHANGED <<fs, data, row, category, tables, ym, summary, columns,
                   numIn, numOut, numOut2>>

IndexNext == BuildCandidates

IndexSpec == IndexInit /\ [][IndexNext]_vars

\* the texts of the non-null cells of the present columns
SourceValues ==
    UNION {{AsStr(columns[i].cells[j]) :
               j \in {k \in 1..Len(columns[i].cells) : columns[i].cells[k].k # "null"}} :
           i \in {k \in 1..Len(columns) : columns[k].present}}

NamesSet == {names[i] : i \in 1..Len(names)}

\* ascending with no two equal entries
StrictlySorted(s) == \A i \in 1..(Len(s) - 1) : TextLess(s[i], s[i + 1])

\* C9 as stated: the index is sorted, free of duplicates and of blank
\* entries, and every entry is whitespace-trimmed, so that values differing
\* only in surrounding whitespace give one entry.
C9_TrimmedIndex ==
    pc = "indexed" =>
        /\ StrictlySorted(names)
        /\ \A n \in NamesSet : Strip(n) # <<>> /\ Strip(n) = n
        /\ \A a, b \in NamesSet : Strip(a) = Strip(b) => a = b

\* C9 amended: the index is sorted ascending without duplicates and holds
\* exactly the source values that are not empty or whitespace-only, each as
\* it stands in the source (not trimmed).
C9_VerbatimIndex ==
    pc = "indexed" =>
        /\ StrictlySorted(names)
        /\ NamesSet = {v \in SourceValues : Strip(v) # <<>>}

\* the same name with and without a leading blank, twice each, next to a
\* blank cell
C9_Witness ==
    /\ pc = "indexed"
    /\ columns[1].cells = <<StrCell(<<"K">>), StrCell(<<" ">>)>>
    /\ columns[2].cells = <<StrCell(<<" ", "K">>), Null>>
    /\ names = << <<" ", "K">>, <<"K">> >>

-----------------------------------------------------------------------------
(* Specification of the clean_numeric calls *)

MaxNumLen == 4

NumChars == {"1", "5", ".", "-", ",", " "}

RECURSIVE TextsUpTo(_, _)
TextsUpTo(chars, n) ==
    IF n = 0 THEN {<<>>}
    ELSE LET shorter == TextsUpTo(chars, n - 1)
         IN  shorter \cup {Append(t, c) : t \in shorter, c \in chars}

NumInputs ==
    {StrCell(t) : t \in TextsUpTo(NumChars, MaxNumLen)}
      \cup {StrCell(<<"a", "b", "c">>), StrCell(<<"1", "e", "5">>), Null}
      \cup {IntCell(n) : n \in {-15, 0, 7}}

NumInit ==
    /\ numIn \in NumInputs
    /\ numOut = Idle /\ numOut2 = Idle
    /\ pc = "num"
    /\ fs = Idle /\ data = Idle /\ row = Idle /\ category = <<>>
    /\ tables = Idle /\ ym = Idle /\ summary = Idle
    /\ columns = Idle /\ names = Idle

CleanNumeric ==
    /\ pc = "num"
    /\ numOut' = clean_numeric(numIn)
    /\ pc' = "num2"
    /\ UNCHANGED <<fs, data, row, category, tables, ym, summary, columns, names,
                   numIn, numOut2>>

CleanNumericAgain ==
    /\ pc = "num2"
    /\ numOut2' = clean_numeric(IntCell(numOut))
    /\ pc' = "numdone"
    /\ UNCHANGED <<fs, data, row, category, tables, ym, summary, columns, names,
                   numIn, numOut>>

NumNext == CleanNumeric \/ CleanNumericAgain

NumSpec == NumInit /\ [][NumNext]_vars

\* the stripped form of the input is a parseable number
NumParseable(c) == ToNumeric(StripNonNumeric(AsStr(c))).ok

HasDigit(t) == \E i \in 1..Len(t) : t[i] \in Digits

\* C10: clean_numeric returns an integer for every input, 0 for the empty
\* string, for text without digits ("abc"), for null and for every text whose
\* stripped form is not a parseable number, and applying it to its own
\* result gives the same result (idempotence).
C10_CleanNumeric ==
    /\ pc \in {"num2", "numdone"} =>
         /\ numOut \in Int
         /\ (numIn = Null => numOut = 0)
         /\ (numIn.k = "str" /\ ~HasDigit(numIn.v) => numOut = 0)
         /\ (~NumParseable(numIn) => numOut = 0)
    /\ pc = "numdone" => numOut2 = numOut

\* a negative amount with a thousands separator has been cleaned twice
C10_Witness ==
    /\ pc = "numdone"
    /\ numIn = StrCell(<<"-", "1", ",", "5">>)
    /\ numOut = -15 /\ numOut2 = -15

====
